---- MODULE Spec2Model ----
(***************************************************************************)
(* PyKV: a capacity-bounded key-value store.                               *)
(*   app/lru.py           LRUCache over a doubly linked list of Nodes      *)
(*   app/store.py         KeyValueStore: LRUCache + "action|key|value" WAL *)
(*   app/simple_store.py  SimpleAsyncKeyValueStore: TTL cache + JSON WAL,  *)
(*                        recovery and log compaction                      *)
(***************************************************************************)
EXTENDS Integers, Sequences, FiniteSets, TLC

\* ------------------------------------------------------------------ bounds
MaxCap == 2          \* capacities 1..MaxCap are explored
MaxTime == 2         \* the clock runs from 0 to MaxTime ticks
MaxOps == 4          \* requests, passes, I/O failures and process ends per behaviour

\* the clock's resolution: time.time() is a float, a tick is 1/TicksPerSecond s
TicksPerSecond == 2

Keys == {"a", "b", "c"}
SKeys == {"a", "b"}  \* the keys given to the SimpleAsyncKeyValueStore
Values == {"1", "2"}

NoneStr == "None"    \* Python None where a key or a value is expected
NoNode == -1         \* Python None where a Node reference is expected
NoneNum == -1        \* Python None where a number is expected
NoTask == "none"     \* the lock is free
Clients == {"t1", "t2"}                 \* tasks calling set / get / delete
Tasks == Clients \cup {"compactor"}     \* and the task running compact_log
IdlePc == [t \in Tasks |-> "idle"]
NoReq == [op |-> "none", key |-> NoneStr, value |-> NoneStr, ttl |-> NoneNum,
          ret |-> NoneStr]
NoReqs == [t \in Clients |-> NoReq]
TTLs == {NoneNum, 1}  \* set is called without ttl or with ttl = 1 second

\* ------------------------------------------------------------------ state
VARIABLES
    capacity,   \* LRUCache.capacity
    cache,      \* LRUCache.cache: key -> Node reference (NoNode: key not in dict)
    node,       \* the Node objects: reference -> [key, value, prev, next]
    touched,    \* history: keys in the order of their last put / successful get
    lastOp,     \* history: the last completed operation and what it returned
    acache,     \* SimpleAsyncKeyValueStore.cache: the AsyncLRUCache, entries MRU first
    now,        \* time.time(), in ticks
    logFile,    \* the file at self.log_file
    tmpFile,    \* the file at self.log_file + ".tmp"
    backupFile, \* whether a file self.log_file + ".backup.<time>" exists (never read)
    stats,      \* SimpleAsyncKeyValueStore.stats
    phase,      \* "up": a store object serves requests; "down": the process is gone
    lock,       \* self.lock: the task holding it, or NoTask
    pc,         \* where each task stands in its handler
    req,        \* the request each client task is serving, and its result so far
    impl,       \* which store class the process runs: "kv" or "simple"
    evicted,    \* history: capacity evictions since the store object was made
    atStop,     \* history: the cache and the clock when the process last ended
    ops,        \* history: requests, passes, I/O failures and process ends so far
    history,    \* history: "setdel" while only set / delete ran on a fresh store,
                \* "recovered" right after the restart that follows, else "other"
    shutdown_event,   \* self.shutdown_event: set or not
    compaction_task,  \* self.compaction_task: "none", or the state of the Task
    shutdown_pc,      \* where the caller of shutdown() stands
    inFlight,   \* history: a compaction pass was under way when shutdown() was called
    passes,     \* history: compact_log calls the loop has made, and those that finished
    applied,    \* history: the set / delete mutations in the order the cache took them
    logged      \* history: the same mutations in the order their records were appended

lruVars == <<capacity, cache, node, touched>>
fileVars == <<logFile, tmpFile, backupFile>>
taskVars == <<shutdown_event, compaction_task, shutdown_pc, inFlight>>
loopVars == <<taskVars, passes>>
orderVars == <<applied, logged>>
storeVars == <<acache, now, logFile, tmpFile, backupFile, stats, phase, lock, pc, req,
              impl, loopVars, orderVars>>
histVars == <<evicted, atStop, ops, history>>
vars == <<capacity, cache, node, touched, lastOp, acache, now, logFile, tmpFile,
          backupFile, stats, phase, lock, pc, req, impl, evicted, atStop, ops, history,
          shutdown_event, compaction_task, shutdown_pc, inFlight, passes, applied,
          logged>>

\* ------------------------------------------------------- app/lru.py: Nodes
\* DoublyLinkedList.head and .tail are two sentinel Nodes; the data Nodes are
\* drawn from a pool (a Node no longer referenced is garbage and goes back).
head == 0
NodePool == 1 .. (Cardinality(Keys) + 1)
tail == Cardinality(Keys) + 2
NodeRefs == {head, tail} \cup NodePool

\* Node.__init__
NewNode(key, value) == [key |-> key, value |-> value, prev |-> NoNode, next |-> NoNode]

\* a pool slot that holds no object
FreeNode == NewNode(NoneStr, NoneStr)

\* DoublyLinkedList.__init__
EmptyList ==
    [n \in NodeRefs |->
        IF n = head THEN [NewNode(NoneStr, NoneStr) EXCEPT !.next = tail]
        ELSE IF n = tail THEN [NewNode(NoneStr, NoneStr) EXCEPT !.prev = head]
        ELSE FreeNode]

\* add_to_front without its third statement (head.next.prev = node)
add_to_front_no_back_link(h, n) ==
    LET h1 == [h EXCEPT ![n].next = h[head].next]
        h2 == [h1 EXCEPT ![n].prev = head]
    IN  [h2 EXCEPT ![head].next = n]

\* DoublyLinkedList.add_to_front, statement by statement
add_to_front(h, n) ==
    LET h1 == [h EXCEPT ![n].next = h[head].next]
        h2 == [h1 EXCEPT ![n].prev = head]
        h3 == [h2 EXCEPT ![h2[head].next].prev = n]
    IN  [h3 EXCEPT ![head].next = n]

\* DoublyLinkedList.remove_node
remove_node(h, n) ==
    LET prev_node == h[n].prev
        next_node == h[n].next
        h1 == [h EXCEPT ![prev_node].next = next_node]
    IN  [h1 EXCEPT ![next_node].prev = prev_node]

\* remove_from_end taking the Node next to the head (the most recently used one)
remove_from_front(h) ==
    IF h[head].next = tail
    THEN [list |-> h, lru |-> NoNode]
    ELSE [list |-> remove_node(h, h[head].next), lru |-> h[head].next]

\* DoublyLinkedList.remove_from_end: the list after the call and the Node returned
remove_from_end(h) ==
    IF h[tail].prev = head
    THEN [list |-> h, lru |-> NoNode]
    ELSE [list |-> remove_node(h, h[tail].prev), lru |-> h[tail].prev]

\* ---------------------------------------------------- app/lru.py: LRUCache
\* keys of the dict self.cache
CacheKeys(c) == {k \in Keys : c[k] # NoNode}

\* len(self.cache)
CacheLen(c) == Cardinality(CacheKeys(c))

\* a Node the program no longer references is collected
Collect(c, h) ==
    [n \in NodeRefs |->
        IF n \in NodePool /\ (\A k \in Keys : c[k] # n) THEN FreeNode ELSE h[n]]

\* Node(key, value): the object gets a reference no live Node has
Allocate(c) == CHOOSE n \in NodePool : \A k \in Keys : c[k] # n

\* LRUCache.__init__
EmptyCache == [k \in Keys |-> NoNode]

\* the eviction branch with the capacity test off by one (> for >=)
EvictIfOverFull(C, c, h) ==
    IF CacheLen(c) > C
    THEN LET r == remove_from_end(h)
         IN  IF r.lru # NoNode
             THEN [cache |-> [c EXCEPT ![h[r.lru].key] = NoNode], list |-> r.list]
             ELSE [cache |-> c, list |-> r.list]
    ELSE [cache |-> c, list |-> h]

\* the eviction branch of LRUCache.put: [cache, list] after lines 63-66
EvictIfFull(C, c, h) ==
    IF CacheLen(c) >= C
    THEN LET r == remove_from_end(h)
         IN  IF r.lru # NoNode
             THEN [cache |-> [c EXCEPT ![h[r.lru].key] = NoNode], list |-> r.list]
             ELSE [cache |-> c, list |-> r.list]
    ELSE [cache |-> c, list |-> h]

\* LRUCache.put: [cache, list] after the call
put(C, c, h, key, value) ==
    IF key \in CacheKeys(c)
    THEN LET n == c[key]
             h1 == [h EXCEPT ![n].value = value]
         IN  [cache |-> c, list |-> add_to_front(remove_node(h1, n), n)]
    ELSE LET e == EvictIfFull(C, c, h)
             c1 == e.cache
             h1 == Collect(c1, e.list)
             n == Allocate(c1)
             h2 == [h1 EXCEPT ![n] = NewNode(key, value)]
         IN  [cache |-> [c1 EXCEPT ![key] = n], list |-> add_to_front(h2, n)]

\* LRUCache.get: [cache, list, ret]
get(c, h, key) ==
    IF key \notin CacheKeys(c)
    THEN [cache |-> c, list |-> h, ret |-> NoneStr]
    ELSE LET n == c[key]
         IN  [cache |-> c, list |-> add_to_front(remove_node(h, n), n),
              ret |-> h[n].value]

\* LRUCache.delete: [cache, list, ret]
delete(c, h, key) ==
    IF key \in CacheKeys(c)
    THEN LET n == c[key]
             h1 == remove_node(h, n)
             c1 == [c EXCEPT ![key] = NoNode]
         IN  [cache |-> c1, list |-> Collect(c1, h1), ret |-> TRUE]
    ELSE [cache |-> c, list |-> h, ret |-> FALSE]

\* ------------------------------------------------------------- histories
\* sequence s without the element x
Without(s, x) == SelectSeq(s, LAMBDA y : y # x)

\* key becomes the most recently touched one
Touch(s, key) == Append(Without(s, key), key)

OpAt(name, key, value, ret, at) ==
    [name |-> name, key |-> key, value |-> value, ret |-> ret, at |-> at]
Op(name, key, value, ret) == OpAt(name, key, value, ret, 0)
NoOp == Op("init", NoneStr, NoneStr, NoneStr)

\* --------------------------------- app/async_lru.py: AsyncLRUCache (spec 4.2)
\* Entry {key, value, expires_at}; expires_at is absolute, NoneNum without TTL
Entry(key, value, expires_at) == [key |-> key, value |-> value, expires_at |-> expires_at]

AKeys(c) == {c[i].key : i \in 1 .. Len(c)}

AEntry(c, key) == c[CHOOSE i \in 1 .. Len(c) : c[i].key = key]

ARemove(c, key) == SelectSeq(c, LAMBDA e : e.key # key)

\* an entry with an expiry is expired once the clock has reached it
Expired(e, t) == e.expires_at # NoneNum /\ t >= e.expires_at

\* put(key, value, ttl): ttl is a duration in ticks, or NoneNum
aput(C, c, key, value, ttl, t) ==
    LET e == Entry(key, value, IF ttl = NoneNum THEN NoneNum ELSE t + ttl)
    IN  IF key \in AKeys(c) THEN <<e>> \o ARemove(c, key)
        ELSE IF Len(c) = C THEN <<e>> \o SubSeq(c, 1, Len(c) - 1)
        ELSE <<e>> \o c

\* put removes the tail entry: the key is new and the cache is full
Evicts(C, c, key) == key \notin AKeys(c) /\ Len(c) = C

\* get(key): [cache, ret]; an expired entry is removed and reported absent
aget(c, key, t) ==
    IF key \notin AKeys(c) THEN [cache |-> c, ret |-> NoneStr]
    ELSE IF Expired(AEntry(c, key), t) THEN [cache |-> ARemove(c, key), ret |-> NoneStr]
    ELSE [cache |-> <<AEntry(c, key)>> \o ARemove(c, key), ret |-> AEntry(c, key).value]

\* delete(key): [cache, ret]; true if a live key was present and removed
adelete(c, key, t) ==
    IF key \notin AKeys(c) THEN [cache |-> c, ret |-> FALSE]
    ELSE [cache |-> ARemove(c, key), ret |-> ~Expired(AEntry(c, key), t)]

\* size()
asize(c) == Len(c)

\* get_all_keys(): the keys, in the cache's order
get_all_keys(c) == [i \in 1 .. Len(c) |-> c[i].key]

\* get_raw(key): the entry (value, expires_at), no recency update
get_raw(c, key) == AEntry(c, key)

\* what a reader of the cache can get at time t: key -> value, NoneStr if absent
LiveView(c, t) ==
    [k \in Keys |->
        IF k \in AKeys(c) /\ ~Expired(AEntry(c, k), t) THEN AEntry(c, k).value
        ELSE NoneStr]

\* ------------------------------------------- app/simple_store.py: the files
File(lines) == [exists |-> TRUE, lines |-> lines]
NoFile == [exists |-> FALSE, lines |-> <<>>]

\* the dict log_entry of _log_operation and compact_log
LogEntry(timestamp, action, key, value, ttl) ==
    [timestamp |-> timestamp, action |-> action, key |-> key, value |-> value,
     ttl |-> ttl]

\* json.dumps(log_entry): a line that json.loads turns back into the same dict
json_dumps(entry) == [json |-> TRUE, entry |-> entry]

\* a line that is no JSON text (json.loads raises JSONDecodeError)
Garbage == [json |-> FALSE, entry |-> LogEntry(NoneNum, NoneStr, NoneStr, NoneStr, NoneNum)]

\* json.loads(line): [ok, entry]
json_loads(line) == [ok |-> line.json, entry |-> line.entry]

\* open(path, "a") and one write: the file is created when it does not exist
AppendLine(file, line) == File(file.lines \o <<line>>)

\* SimpleAsyncKeyValueStore._log_operation: the log file after the call
log_operation(file, action, key, value, ttl, t) ==
    AppendLine(file, json_dumps(LogEntry(t, action, key, value, ttl)))

\* self.stats of __init__
InitStats(t) ==
    [cache_hits |-> 0, cache_misses |-> 0, evictions |-> 0, log_size |-> 0,
     last_compaction |-> NoneNum, start_time |-> t]

\* one iteration of the loop of _recover: the cache after the line
recover_line(C, c, line, t) ==
    LET p == json_loads(line)
        e == p.entry
    IN  IF ~p.ok THEN c
        ELSE IF e.action = "SET"
        THEN IF e.ttl # NoneNum
             THEN LET remaining_ttl == e.ttl * TicksPerSecond - (t - e.timestamp)
                  IN  IF remaining_ttl <= 0 THEN c
                      ELSE aput(C, c, e.key, e.value, remaining_ttl, t)
             ELSE aput(C, c, e.key, e.value, NoneNum, t)
        ELSE IF e.action = "DEL" THEN adelete(c, e.key, t).cache
        ELSE c

RECURSIVE recover_lines(_, _, _, _)
recover_lines(C, c, lines, t) ==
    IF lines = <<>> THEN c
    ELSE recover_lines(C, recover_line(C, c, Head(lines), t), Tail(lines), t)

\* SimpleAsyncKeyValueStore._recover into the empty cache of a new store
recover(C, file, t) ==
    IF ~file.exists THEN <<>> ELSE recover_lines(C, <<>>, file.lines, t)

\* the ttl compact_log writes for an entry: max(0, int(expires_at - time.time()))
compact_ttl(expires_at, t) ==
    LET d == (expires_at - t) \div TicksPerSecond
    IN  IF d > 0 THEN d ELSE 0

\* compact_log, lines 173-179: current_state, the entries get_raw gives for the
\* keys of get_all_keys, in that order
current_state(c) ==
    LET cache_keys == get_all_keys(c)
    IN  [i \in 1 .. Len(cache_keys) |-> get_raw(c, cache_keys[i])]

\* compact_log, lines 184-199: the lines written to the temporary file
RECURSIVE compact_lines(_, _)
compact_lines(state, t) ==
    IF state = <<>> THEN <<>>
    ELSE LET e == Head(state)
             rest == compact_lines(Tail(state), t)
         IN  IF e.expires_at # NoneNum
             THEN IF compact_ttl(e.expires_at, t) <= 0 THEN rest
                  ELSE <<json_dumps(LogEntry(t, "SET", e.key, e.value,
                                             compact_ttl(e.expires_at, t)))>> \o rest
             ELSE <<json_dumps(LogEntry(t, "SET", e.key, e.value, NoneNum))>> \o rest

\* get counting a hit whatever the cache returned
count_get_as_hit(st, value) == [st EXCEPT !.cache_hits = @ + 1]

\* SimpleAsyncKeyValueStore.get, lines 115-118: the statistics after the cache
\* returned value
count_get(st, value) ==
    IF value # NoneStr THEN [st EXCEPT !.cache_hits = @ + 1]
    ELSE [st EXCEPT !.cache_misses = @ + 1]

\* SimpleAsyncKeyValueStore.get_stats
get_stats(st, c, t) ==
    [total_keys |-> asize(c), cache_hits |-> st.cache_hits,
     cache_misses |-> st.cache_misses, evictions |-> st.evictions,
     log_size |-> st.log_size, last_compaction |-> st.last_compaction,
     uptime_seconds |-> (t - st.start_time) \div TicksPerSecond]

\* nothing is remembered of the last stop
NoStop == [cache |-> <<>>, at |-> 0]

\* no compaction loop has been started and shutdown() has not been called
NoPasses == [started |-> 0, finished |-> 0]
NoLoop ==
    /\ shutdown_event = FALSE
    /\ compaction_task = "none"
    /\ shutdown_pc = "idle"
    /\ inFlight = FALSE
    /\ passes = NoPasses

\* no mutation has been applied
NoOrder == applied = <<>> /\ logged = <<>>

\* the variables of the stores, when no store is made
NoStore ==
    /\ NoLoop /\ NoOrder
    /\ acache = <<>>
    /\ now = 0
    /\ logFile = NoFile /\ tmpFile = NoFile /\ backupFile = FALSE
    /\ stats = InitStats(0)
    /\ phase = "down"
    /\ lock = NoTask
    /\ pc = IdlePc
    /\ req = NoReqs
    /\ impl = "none"
    /\ evicted = 0
    /\ atStop = NoStop
    /\ ops = 0
    /\ history = "other"

\* ------------------------------------------- the LRUCache used on its own
InitLRU ==
    /\ capacity \in 1 .. MaxCap
    /\ cache = EmptyCache
    /\ node = EmptyList
    /\ touched = <<>>
    /\ lastOp = NoOp
    /\ NoStore

LRUPut(key, value) ==
    LET r == put(capacity, cache, node, key, value)
    IN  /\ cache' = r.cache
        /\ node' = r.list
        /\ touched' = Touch(touched, key)
        /\ lastOp' = Op("put", key, value, NoneStr)
        /\ UNCHANGED <<capacity, storeVars, histVars>>

LRUGet(key) ==
    LET r == get(cache, node, key)
    IN  /\ cache' = r.cache
        /\ node' = r.list
        /\ touched' = IF r.ret # NoneStr THEN Touch(touched, key) ELSE touched
        /\ lastOp' = Op("get", key, NoneStr, r.ret)
        /\ UNCHANGED <<capacity, storeVars, histVars>>

LRUDelete(key) ==
    LET r == delete(cache, node, key)
    IN  /\ cache' = r.cache
        /\ node' = r.list
        /\ touched' = Without(touched, key)
        /\ lastOp' = Op("delete", key, NoneStr, r.ret)
        /\ UNCHANGED <<capacity, storeVars, histVars>>

NextLRU ==
    \/ \E key \in Keys, value \in Values : LRUPut(key, value)
    \/ \E key \in Keys : LRUGet(key)
    \/ \E key \in Keys : LRUDelete(key)

SpecLRU == InitLRU /\ [][NextLRU]_vars

\* --------------------------------------------------------------- the lock
\* a lock that every caller gets at once
CanAcquireAlways(l) == TRUE

\* "async with self.lock" / "with self.lock": a caller gets the lock when no
\* task holds it, and waits otherwise
CanAcquire(l) == l = NoTask

\* a with block that keeps the lock when its body raises
with_exit_unless_raised(l, raised) == IF raised THEN l ELSE NoTask

\* the end of "with self.lock" / "async with self.lock": the lock is released,
\* whether the body returned or raised
with_exit(l, raised) == NoTask

\* ------------------------------------------- app/store.py: KeyValueStore
\* the values given to the KeyValueStore; "1|2" holds the field delimiter
KVValues == {"1", "2", "1|2"}

\* the characters of a string, as far as the log format tells them apart
Chars(str) == IF str = "1|2" THEN <<"1", "|", "2">> ELSE <<str>>

\* the string made of the characters of one field of a line
Join(field) == IF field = <<>> THEN "" ELSE IF Len(field) = 1 THEN field[1] ELSE "1|2"

\* f"{action}|{key}|{value}\n", value None printed as "None"
kv_format(action, key, value) ==
    <<action, "|">> \o Chars(key) \o <<"|">> \o Chars(value) \o <<"\n">>

\* KeyValueStore._log: the log file after the call
kv_log(file, action, key, value) == AppendLine(file, kv_format(action, key, value))

\* the "if deleted" of KeyValueStore.delete left out: a DEL record is always written
kv_delete_log_always(file, key, deleted) == kv_log(file, "DEL", key, NoneStr)

\* KeyValueStore.delete, lines 45-46: the log file after "if deleted: self._log(...)"
kv_delete_log(file, key, deleted) ==
    IF deleted THEN kv_log(file, "DEL", key, NoneStr) ELSE file

\* line.strip(): the line without the white space at its ends
RECURSIVE strip(_)
strip(line) ==
    IF line = <<>> THEN line
    ELSE IF Head(line) \in {" ", "\n"} THEN strip(Tail(line))
    ELSE IF line[Len(line)] \in {" ", "\n"} THEN strip(SubSeq(line, 1, Len(line) - 1))
    ELSE line

\* str.split("|"): the fields between the delimiters
RECURSIVE split(_)
split(line) ==
    IF \A i \in 1 .. Len(line) : line[i] # "|" THEN <<line>>
    ELSE LET d == CHOOSE i \in 1 .. Len(line) :
                      line[i] = "|" /\ \A j \in 1 .. (i - 1) : line[j] # "|"
         IN  <<SubSeq(line, 1, d - 1)>> \o split(SubSeq(line, d + 1, Len(line)))

\* a line written by no _log call
Junk == <<"junk", "\n">>

\* the loop of KeyValueStore._recover: [cache, list, failed] after the lines;
\* a line that does not unpack into three fields raises ValueError
RECURSIVE kv_recover_lines(_, _, _, _)
kv_recover_lines(C, c, h, lines) ==
    IF lines = <<>> THEN [cache |-> c, list |-> h, failed |-> FALSE]
    ELSE LET fields == split(strip(Head(lines)))
         IN  IF Len(fields) # 3 THEN [cache |-> c, list |-> h, failed |-> TRUE]
             ELSE LET action == Join(fields[1])
                      key == Join(fields[2])
                      value == Join(fields[3])
                  IN  IF action = "SET"
                      THEN LET r == put(C, c, h, key, value)
                           IN  kv_recover_lines(C, r.cache, r.list, Tail(lines))
                      ELSE IF action = "DEL"
                      THEN LET r == delete(c, h, key)
                           IN  kv_recover_lines(C, r.cache, r.list, Tail(lines))
                      ELSE kv_recover_lines(C, c, h, Tail(lines))

\* KeyValueStore._recover into the empty cache of __init__
kv_recover(C, file) ==
    IF ~file.exists THEN [cache |-> EmptyCache, list |-> EmptyList, failed |-> FALSE]
    ELSE kv_recover_lines(C, EmptyCache, EmptyList, file.lines)

\* what a reader of the LRUCache can get: key -> value, NoneStr if absent
Content(c, h) == [k \in Keys |-> IF k \in CacheKeys(c) THEN h[c[k]].value ELSE NoneStr]

\* the store variables the KeyValueStore does not have
NotInKV ==
    /\ acache = <<>>
    /\ now = 0
    /\ tmpFile = NoFile /\ backupFile = FALSE
    /\ stats = InitStats(0)
    /\ evicted = 0
    /\ atStop = NoStop
    /\ history = "other"

kvUnused == <<acache, now, tmpFile, backupFile, stats, evicted, atStop, history>>

\* KeyValueStore.__init__ with no log file at the path
InitKV ==
    /\ NoLoop /\ NoOrder
    /\ capacity \in 1 .. MaxCap
    /\ cache = EmptyCache /\ node = EmptyList /\ touched = <<>>
    /\ lastOp = NoOp
    /\ logFile = NoFile
    /\ phase = "up"
    /\ lock = NoTask
    /\ pc = IdlePc
    /\ req = NoReqs
    /\ impl = "kv"
    /\ ops = 0
    /\ NotInKV

\* KeyValueStore.set
KVSet(key, value) ==
    /\ phase = "up" /\ CanAcquire(lock)
    /\ ops < MaxOps /\ ops' = ops + 1
    /\ LET r == put(capacity, cache, node, key, value)
       IN  cache' = r.cache /\ node' = r.list
    /\ logFile' = kv_log(logFile, "SET", key, value)
    /\ touched' = Touch(touched, key)
    /\ lastOp' = Op("set", key, value, NoneStr)
    /\ UNCHANGED <<capacity, phase, lock, pc, req, impl, loopVars, orderVars, kvUnused>>

\* KeyValueStore.get
KVGet(key) ==
    /\ phase = "up" /\ CanAcquire(lock)
    /\ ops < MaxOps /\ ops' = ops + 1
    /\ LET r == get(cache, node, key)
       IN  /\ cache' = r.cache /\ node' = r.list
           /\ touched' = IF r.ret # NoneStr THEN Touch(touched, key) ELSE touched
           /\ lastOp' = Op("get", key, NoneStr, r.ret)
    /\ UNCHANGED <<capacity, logFile, phase, lock, pc, req, impl, loopVars, orderVars,
                   kvUnused>>

\* KeyValueStore.delete
KVDelete(key) ==
    /\ phase = "up" /\ CanAcquire(lock)
    /\ ops < MaxOps /\ ops' = ops + 1
    /\ LET r == delete(cache, node, key)
       IN  /\ cache' = r.cache /\ node' = r.list
           /\ logFile' = kv_delete_log(logFile, key, r.ret)
           /\ lastOp' = Op("delete", key, NoneStr, r.ret)
    /\ touched' = Without(touched, key)
    /\ UNCHANGED <<capacity, phase, lock, pc, req, impl, loopVars, orderVars, kvUnused>>

\* the process ends: only the log file remains
KVStop ==
    /\ phase = "up"
    /\ ops < MaxOps /\ ops' = ops + 1
    /\ phase' = "down"
    /\ cache' = EmptyCache /\ node' = EmptyList /\ touched' = <<>>
    /\ lock' = NoTask /\ pc' = IdlePc /\ req' = NoReqs
    /\ lastOp' = Op("stop", NoneStr, NoneStr, NoneStr)
    /\ UNCHANGED <<capacity, logFile, impl, loopVars, orderVars, kvUnused>>

\* while the process is down a line that is no record gets into the log file
\* (a torn write, an edit) after its first i lines
KVCorrupt(i) ==
    /\ phase = "down" /\ logFile.exists
    /\ ops < MaxOps /\ ops' = ops + 1
    /\ i \in 0 .. Len(logFile.lines)
    /\ logFile' = File(SubSeq(logFile.lines, 1, i) \o <<Junk>>
                       \o SubSeq(logFile.lines, i + 1, Len(logFile.lines)))
    /\ lastOp' = Op("corrupt", NoneStr, NoneStr, NoneStr)
    /\ UNCHANGED <<lruVars, phase, lock, pc, req, impl, loopVars, orderVars, kvUnused>>

\* a new process: KeyValueStore.__init__, which runs _recover; a ValueError
\* raised by _recover ends the process again
KVRecover ==
    /\ phase = "down"
    /\ LET r == kv_recover(capacity, logFile)
       IN  IF r.failed
           THEN /\ lastOp' = Op("recover", NoneStr, NoneStr, "ValueError")
                /\ UNCHANGED <<cache, node, phase>>
           ELSE /\ lastOp' = Op("recover", NoneStr, NoneStr, NoneStr)
                /\ cache' = r.cache /\ node' = r.list
                /\ phase' = "up"
    /\ UNCHANGED <<capacity, touched, logFile, lock, pc, req, impl, loopVars, orderVars,
                   ops, kvUnused>>

NextKV ==
    \/ \E key \in Keys, value \in KVValues : KVSet(key, value)
    \/ \E key \in Keys : KVGet(key)
    \/ \E key \in Keys : KVDelete(key)
    \/ KVStop
    \/ \E i \in 0 .. MaxOps : KVCorrupt(i)
    \/ KVRecover

SpecKV == InitKV /\ [][NextKV]_vars

\* ------------------- SimpleAsyncKeyValueStore, one caller at a time (SpecSimple)
\* __init__ and initialize() of a store whose log file does not exist yet
InitSimple ==
    /\ NoLoop /\ NoOrder
    /\ capacity \in 1 .. MaxCap
    /\ cache = EmptyCache /\ node = EmptyList /\ touched = <<>>
    /\ lastOp = NoOp
    /\ acache = <<>>
    /\ now = 0
    /\ logFile = NoFile /\ tmpFile = NoFile /\ backupFile = FALSE
    /\ stats = InitStats(0)
    /\ phase = "up"
    /\ lock = NoTask
    /\ pc = IdlePc
    /\ req = NoReqs
    /\ impl = "simple"
    /\ evicted = 0
    /\ atStop = NoStop
    /\ ops = 0
    /\ history = "setdel"

\* history after a set or a delete
AfterWrite == IF history = "setdel" THEN "setdel" ELSE "other"

\* SimpleAsyncKeyValueStore.set
Set(key, value, ttl) ==
    /\ phase = "up" /\ CanAcquire(lock)
    /\ ops < MaxOps /\ ops' = ops + 1
    /\ acache' = aput(capacity, acache, key, value,
                      IF ttl = NoneNum THEN NoneNum ELSE ttl * TicksPerSecond, now)
    /\ logFile' = log_operation(logFile, "SET", key, value, ttl, now)
    /\ stats' = [stats EXCEPT !.log_size = @ + 1]
    /\ evicted' = IF Evicts(capacity, acache, key) THEN evicted + 1 ELSE evicted
    /\ lastOp' = OpAt("set", key, NoneStr, NoneStr, 0)
    /\ history' = AfterWrite
    /\ atStop' = NoStop
    /\ UNCHANGED <<lruVars, now, tmpFile, backupFile, phase, lock, pc, req, impl,
                   loopVars, orderVars>>

\* SimpleAsyncKeyValueStore.get
Get(key) ==
    /\ phase = "up" /\ CanAcquire(lock)
    /\ ops < MaxOps /\ ops' = ops + 1
    /\ LET r == aget(acache, key, now)
       IN  /\ acache' = r.cache
           /\ stats' = count_get(stats, r.ret)
           /\ lastOp' = OpAt("get", key, NoneStr, r.ret, 0)
    /\ history' = "other"
    /\ atStop' = NoStop
    /\ UNCHANGED <<lruVars, now, fileVars, phase, lock, pc, req, impl, loopVars,
                   orderVars, evicted>>

\* SimpleAsyncKeyValueStore.delete
Delete(key) ==
    /\ phase = "up" /\ CanAcquire(lock)
    /\ ops < MaxOps /\ ops' = ops + 1
    /\ LET r == adelete(acache, key, now)
       IN  /\ acache' = r.cache
           /\ logFile' = IF r.ret
                         THEN log_operation(logFile, "DEL", key, NoneStr, NoneNum, now)
                         ELSE logFile
           /\ stats' = IF r.ret THEN [stats EXCEPT !.log_size = @ + 1] ELSE stats
           /\ lastOp' = OpAt("delete", key, NoneStr, r.ret, 0)
    /\ history' = AfterWrite
    /\ atStop' = NoStop
    /\ UNCHANGED <<lruVars, now, tmpFile, backupFile, phase, lock, pc, req, impl,
                   loopVars, orderVars, evicted>>

\* compact_log when the log file does not exist: it returns at once
CompactNoLog ==
    /\ phase = "up" /\ pc["compactor"] = "idle"
    /\ ~logFile.exists
    /\ ops < MaxOps /\ ops' = ops + 1
    /\ lastOp' = OpAt("compact_skipped", NoneStr, NoneStr, NoneStr, 0)
    /\ history' = "other"
    /\ atStop' = NoStop
    /\ UNCHANGED <<lruVars, storeVars, evicted>>

\* compact_log, lines 171-199: take the lock, snapshot the cache, write the
\* temporary file
CompactWriteTmp ==
    /\ phase = "up" /\ pc["compactor"] = "idle"
    /\ logFile.exists
    /\ CanAcquire(lock)
    /\ ops < MaxOps /\ ops' = ops + 1
    /\ lock' = "compactor"
    /\ tmpFile' = File(compact_lines(current_state(acache), now))
    /\ pc' = [pc EXCEPT !["compactor"] = "tmp_written"]
    /\ lastOp' = OpAt("compact_snapshot", NoneStr, NoneStr, NoneStr, now)
    /\ history' = "other"
    /\ atStop' = NoStop
    /\ UNCHANGED <<lruVars, acache, now, logFile, backupFile, stats, phase, req, impl,
                   loopVars, orderVars, evicted>>

\* compact_log, lines 202-206: rename the log to its backup
CompactBackup ==
    /\ phase = "up" /\ pc["compactor"] = "tmp_written"
    /\ IF tmpFile.exists /\ logFile.exists
       THEN backupFile' = TRUE /\ logFile' = NoFile
       ELSE UNCHANGED <<backupFile, logFile>>
    /\ pc' = [pc EXCEPT !["compactor"] = "log_renamed"]
    /\ UNCHANGED <<lruVars, lastOp, acache, now, tmpFile, stats, phase, lock, req, impl,
                   loopVars, orderVars, histVars>>

\* compact_log, lines 209-224: rename the temporary file into place, update the
\* statistics, release the lock
CompactInstall ==
    /\ phase = "up" /\ pc["compactor"] = "log_renamed"
    /\ logFile' = tmpFile
    /\ tmpFile' = NoFile
    /\ stats' = [stats EXCEPT !.last_compaction = now,
                              !.log_size = Len(tmpFile.lines)]
    /\ lock' = NoTask
    /\ pc' = [pc EXCEPT !["compactor"] = "idle"]
    /\ lastOp' = OpAt("compact", NoneStr, NoneStr, NoneStr, lastOp.at)
    /\ UNCHANGED <<lruVars, acache, now, backupFile, phase, req, impl, taskVars,
                   orderVars, histVars>>

\* the history entry of a compaction pass that raised at one of its steps
PassFailed(step) == OpAt("compact_failed", NoneStr, step, "OSError", now)

\* compact_log, lines 171-199, when open() or write() on the temporary file
\* raises OSError: the exception leaves the with blocks (the lock is released)
\* and _compaction_loop prints it; the temporary file is as it was, or empty
\* if open() had made it
CompactWriteFails ==
    /\ phase = "up" /\ pc["compactor"] = "idle"
    /\ logFile.exists
    /\ CanAcquire(lock)
    /\ ops < MaxOps /\ ops' = ops + 1
    /\ lock' = with_exit("compactor", TRUE)
    /\ tmpFile' \in {tmpFile, File(<<>>)}
    /\ lastOp' = PassFailed("write_tmp")
    /\ history' = "other"
    /\ atStop' = NoStop
    /\ UNCHANGED <<lruVars, acache, now, logFile, backupFile, stats, phase, pc, req, impl,
                   loopVars, orderVars, evicted>>

\* compact_log, line 206, when os.rename(log, backup) raises OSError
CompactBackupFails ==
    /\ phase = "up" /\ pc["compactor"] = "tmp_written"
    /\ tmpFile.exists /\ logFile.exists
    /\ lock' = with_exit(lock, TRUE)
    /\ pc' = [pc EXCEPT !["compactor"] = "idle"]
    /\ lastOp' = PassFailed("rename_backup")
    /\ UNCHANGED <<lruVars, acache, now, fileVars, stats, phase, req, impl, loopVars,
                   orderVars, histVars>>

\* compact_log, line 209, when os.rename(temp, log) raises OSError
CompactInstallFails ==
    /\ phase = "up" /\ pc["compactor"] = "log_renamed"
    /\ lock' = with_exit(lock, TRUE)
    /\ pc' = [pc EXCEPT !["compactor"] = "idle"]
    /\ lastOp' = PassFailed("rename_tmp")
    /\ UNCHANGED <<lruVars, acache, now, fileVars, stats, phase, req, impl, loopVars,
                   orderVars, histVars>>

\* time passes
Tick ==
    /\ now < MaxTime
    /\ now' = now + 1
    /\ UNCHANGED <<lruVars, lastOp, acache, fileVars, stats, phase, lock, pc, req, impl,
                   loopVars, orderVars, histVars>>

\* the process ends (shutdown, or a crash at any point): only the files remain
Stop ==
    /\ phase = "up"
    /\ ops < MaxOps /\ ops' = ops + 1
    /\ phase' = "down"
    /\ atStop' = IF history = "setdel" THEN [cache |-> acache, at |-> now] ELSE NoStop
    /\ acache' = <<>>
    /\ stats' = InitStats(0)
    /\ lock' = NoTask
    /\ pc' = IdlePc
    /\ evicted' = 0
    /\ lastOp' = OpAt("stop", NoneStr, NoneStr, NoneStr, 0)
    /\ req' = NoReqs
    /\ UNCHANGED <<lruVars, now, fileVars, impl, loopVars, orderVars, history>>

\* while the process is down a line that is no JSON text gets into the log
\* file (a torn write, an edit) after its first i lines
Corrupt(i) ==
    /\ phase = "down" /\ logFile.exists
    /\ ops < MaxOps /\ ops' = ops + 1
    /\ i \in 0 .. Len(logFile.lines)
    /\ logFile' = File(SubSeq(logFile.lines, 1, i) \o <<Garbage>>
                       \o SubSeq(logFile.lines, i + 1, Len(logFile.lines)))
    /\ lastOp' = OpAt("corrupt", NoneStr, NoneStr, NoneStr, 0)
    /\ history' = "other"
    /\ atStop' = NoStop
    /\ UNCHANGED <<lruVars, acache, now, tmpFile, backupFile, stats, phase, lock, pc, req,
                   impl, loopVars, orderVars, evicted>>

\* a new process: __init__ and initialize(), which runs _recover
Recover ==
    /\ phase = "down"
    /\ phase' = "up"
    /\ acache' = recover(capacity, logFile, now)
    /\ stats' = InitStats(now)
    /\ lastOp' = OpAt("recover", NoneStr, NoneStr, NoneStr, now)
    /\ history' = IF history = "setdel" THEN "recovered" ELSE "other"
    /\ atStop' = IF history = "setdel" THEN atStop ELSE NoStop
    /\ UNCHANGED <<lruVars, now, fileVars, lock, pc, req, impl, loopVars, orderVars,
                   evicted, ops>>

NextSimple ==
    \/ \E key \in SKeys, value \in Values, ttl \in TTLs : Set(key, value, ttl)
    \/ \E key \in SKeys : Get(key)
    \/ \E key \in SKeys : Delete(key)
    \/ CompactNoLog
    \/ CompactWriteTmp
    \/ CompactBackup
    \/ (CompactInstall /\ UNCHANGED passes)
    \/ CompactWriteFails
    \/ CompactBackupFails
    \/ CompactInstallFails
    \/ Tick
    \/ Stop
    \/ \E i \in 0 .. MaxOps : Corrupt(i)
    \/ Recover

SpecSimple == InitSimple /\ [][NextSimple]_vars

\* one store object from initialize() on, serving requests and compacting
\* (SpecServe): no process end, no failure, one value
NextServe ==
    \/ \E key \in SKeys, ttl \in TTLs : Set(key, "1", ttl)
    \/ \E key \in SKeys : Get(key)
    \/ \E key \in SKeys : Delete(key)
    \/ CompactNoLog
    \/ CompactWriteTmp
    \/ CompactBackup
    \/ (CompactInstall /\ UNCHANGED passes)
    \/ Tick

SpecServe == InitSimple /\ [][NextServe]_vars

\* ------------------------- both stores under concurrent callers (SpecConc)
\* the capacities tried under concurrent callers: the callers use the keys of
\* SKeys, a larger cache behaves like one that holds them all
ConcCap == IF MaxCap < Cardinality(SKeys) THEN MaxCap ELSE Cardinality(SKeys)

\* a process running either store class, its log file not existing yet
InitConc ==
    /\ NoLoop /\ NoOrder
    /\ impl \in {"kv", "simple"}
    /\ capacity \in 1 .. ConcCap
    /\ cache = EmptyCache /\ node = EmptyList /\ touched = <<>>
    /\ lastOp = NoOp
    /\ acache = <<>>
    /\ now = 0
    /\ logFile = NoFile /\ tmpFile = NoFile /\ backupFile = FALSE
    /\ stats = InitStats(0)
    /\ phase = "up"
    /\ lock = NoTask
    /\ pc = IdlePc
    /\ req = NoReqs
    /\ evicted = 0
    /\ atStop = NoStop
    /\ ops = 0
    /\ history = "other"

\* the request of a task writes a record: a set, or a delete that removed a key
Appends(q) == q.op = "set" \/ (q.op = "delete" /\ q.ret)

\* the mutation the request q of task t makes, as the histories keep it
Mutation(t, q) ==
    [by |-> t, action |-> IF q.op = "set" THEN "SET" ELSE "DEL", key |-> q.key]

\* the history s without the last mutation of task t
WithoutLastBy(s, t) ==
    LET last == CHOOSE i \in 1 .. Len(s) :
                    s[i].by = t /\ \A j \in (i + 1) .. Len(s) : s[j].by # t
    IN  SubSeq(s, 1, last - 1) \o SubSeq(s, last + 1, Len(s))

\* a caller enters set, get or delete and reaches the "with self.lock" line
Call(t, op, key, value, ttl) ==
    /\ phase = "up" /\ pc[t] = "idle"
    /\ ops < MaxOps /\ ops' = ops + 1
    /\ op = "set" \/ (value = NoneStr /\ ttl = NoneNum)
    /\ op = "set" => value # NoneStr
    /\ impl = "kv" => ttl = NoneNum
    /\ req' = [req EXCEPT ![t] = [op |-> op, key |-> key, value |-> value,
                                  ttl |-> ttl, ret |-> NoneStr]]
    /\ pc' = [pc EXCEPT ![t] = "waiting"]
    /\ UNCHANGED <<lruVars, lastOp, acache, now, fileVars, stats, phase, lock, impl,
                   loopVars, orderVars, evicted, atStop, history>>

\* "with self.lock" / "async with self.lock": the caller enters when it gets it
Acquire(t) ==
    /\ pc[t] = "waiting"
    /\ CanAcquire(lock)
    /\ lock' = t
    /\ pc' = [pc EXCEPT ![t] = "locked"]
    /\ UNCHANGED <<lruVars, lastOp, acache, now, fileVars, stats, phase, req, impl,
                   loopVars, orderVars, histVars>>

\* KeyValueStore.set / get / delete: the call into the LRUCache
KVCacheStep(t) ==
    /\ impl = "kv" /\ pc[t] = "locked"
    /\ LET q == req[t]
           r == IF q.op = "set"
                THEN put(capacity, cache, node, q.key, q.value) @@ [ret |-> NoneStr]
                ELSE IF q.op = "get" THEN get(cache, node, q.key)
                ELSE delete(cache, node, q.key)
       IN  /\ cache' = r.cache /\ node' = r.list
           /\ req' = [req EXCEPT ![t].ret = r.ret]
    /\ pc' = [pc EXCEPT ![t] = "cached"]
    /\ applied' = IF Appends(req'[t])
                  THEN Append(applied, Mutation(t, req[t])) ELSE applied
    /\ UNCHANGED <<capacity, touched, lastOp, acache, now, fileVars, stats, phase, lock,
                   impl, loopVars, logged, histVars>>

\* KeyValueStore.set / delete: the call of _log (get writes nothing)
KVLogStep(t) ==
    /\ impl = "kv" /\ pc[t] = "cached"
    /\ LET q == req[t]
       IN  logFile' = IF q.op = "set" THEN kv_log(logFile, "SET", q.key, q.value)
                      ELSE IF q.op = "delete" THEN kv_delete_log(logFile, q.key, q.ret)
                      ELSE logFile
    /\ pc' = [pc EXCEPT ![t] = "logged"]
    /\ logged' = IF Appends(req[t]) THEN Append(logged, Mutation(t, req[t])) ELSE logged
    /\ UNCHANGED <<lruVars, lastOp, acache, now, tmpFile, backupFile, stats, phase, lock,
                   req, impl, loopVars, applied, histVars>>

\* SimpleAsyncKeyValueStore.set / get / delete: the awaited cache call
CacheStep(t) ==
    /\ impl = "simple" /\ pc[t] = "locked"
    /\ LET q == req[t]
           r == IF q.op = "set"
                THEN [cache |-> aput(capacity, acache, q.key, q.value,
                                     IF q.ttl = NoneNum THEN NoneNum
                                     ELSE q.ttl * TicksPerSecond, now),
                      ret |-> NoneStr]
                ELSE IF q.op = "get" THEN aget(acache, q.key, now)
                ELSE adelete(acache, q.key, now)
       IN  /\ acache' = r.cache
           /\ req' = [req EXCEPT ![t].ret = r.ret]
           /\ evicted' = IF q.op = "set" /\ Evicts(capacity, acache, q.key)
                         THEN evicted + 1 ELSE evicted
    /\ pc' = [pc EXCEPT ![t] = "cached"]
    /\ applied' = IF Appends(req'[t])
                  THEN Append(applied, Mutation(t, req[t])) ELSE applied
    /\ UNCHANGED <<lruVars, lastOp, now, fileVars, stats, phase, lock, impl, loopVars,
                   logged, atStop, ops, history>>

\* SimpleAsyncKeyValueStore.set / delete: the awaited _log_operation;
\* get: the hit / miss counters
LogStep(t) ==
    /\ impl = "simple" /\ pc[t] = "cached"
    /\ LET q == req[t]
       IN  IF q.op = "set"
           THEN /\ logFile' = log_operation(logFile, "SET", q.key, q.value, q.ttl, now)
                /\ stats' = [stats EXCEPT !.log_size = @ + 1]
           ELSE IF q.op = "delete"
           THEN IF q.ret
                THEN /\ logFile' = log_operation(logFile, "DEL", q.key, NoneStr,
                                                 NoneNum, now)
                     /\ stats' = [stats EXCEPT !.log_size = @ + 1]
                ELSE UNCHANGED <<logFile, stats>>
           ELSE /\ stats' = count_get(stats, q.ret)
                /\ UNCHANGED logFile
    /\ pc' = [pc EXCEPT ![t] = "logged"]
    /\ logged' = IF Appends(req[t]) THEN Append(logged, Mutation(t, req[t])) ELSE logged
    /\ UNCHANGED <<lruVars, lastOp, acache, now, tmpFile, backupFile, phase, lock, req,
                   impl, loopVars, applied, histVars>>

\* the history entry of a set / delete whose append raised
Failed(q) ==
    Op(IF q.op = "set" THEN "set_failed" ELSE "delete_failed", q.key, NoneStr, "OSError")

\* KeyValueStore.set / delete: open() or write() in _log raises OSError; nothing
\* is written, the exception leaves the with block and reaches the caller
KVLogFails(t) ==
    /\ impl = "kv" /\ pc[t] = "cached"
    /\ Appends(req[t])
    /\ ops < MaxOps /\ ops' = ops + 1
    /\ lock' = with_exit(lock, TRUE)
    /\ pc' = [pc EXCEPT ![t] = "idle"]
    /\ req' = [req EXCEPT ![t] = NoReq]
    /\ lastOp' = Failed(req[t])
    /\ applied' = WithoutLastBy(applied, t)
    /\ UNCHANGED <<lruVars, acache, now, fileVars, stats, phase, impl, loopVars, logged,
                   evicted, atStop, history>>

\* SimpleAsyncKeyValueStore.set / delete: open() or write() in _log_operation
\* raises OSError; nothing is written, log_size is not counted up, the
\* exception leaves the with block and reaches the caller
LogFails(t) ==
    /\ impl = "simple" /\ pc[t] = "cached"
    /\ Appends(req[t])
    /\ ops < MaxOps /\ ops' = ops + 1
    /\ lock' = with_exit(lock, TRUE)
    /\ pc' = [pc EXCEPT ![t] = "idle"]
    /\ req' = [req EXCEPT ![t] = NoReq]
    /\ lastOp' = Failed(req[t])
    /\ applied' = WithoutLastBy(applied, t)
    /\ UNCHANGED <<lruVars, acache, now, fileVars, stats, phase, impl, loopVars, logged,
                   evicted, atStop, history>>

\* the end of the with block: the lock is released and the handler returns
Release(t) ==
    /\ pc[t] = "logged"
    /\ lock' = with_exit(lock, FALSE)
    /\ pc' = [pc EXCEPT ![t] = "idle"]
    /\ req' = [req EXCEPT ![t] = NoReq]
    /\ lastOp' = Op(req[t].op, req[t].key, NoneStr, req[t].ret)
    /\ UNCHANGED <<lruVars, acache, now, fileVars, stats, phase, impl, loopVars,
                   orderVars, histVars>>

NextConc ==
    \/ \E t \in Clients, key \in SKeys, value \in {"1"}, ttl \in {NoneNum} :
            Call(t, "set", key, value, ttl)
    \/ \E t \in Clients, key \in SKeys : Call(t, "get", key, NoneStr, NoneNum)
    \/ \E t \in Clients, key \in SKeys : Call(t, "delete", key, NoneStr, NoneNum)
    \/ \E t \in Clients : Acquire(t)
    \/ \E t \in Clients : KVCacheStep(t)
    \/ \E t \in Clients : KVLogStep(t)
    \/ \E t \in Clients : CacheStep(t)
    \/ \E t \in Clients : LogStep(t)
    \/ \E t \in Clients : KVLogFails(t)
    \/ \E t \in Clients : LogFails(t)
    \/ \E t \in Clients : Release(t)
    \/ (impl = "simple" /\ CompactNoLog)
    \/ (impl = "simple" /\ CompactWriteTmp)
    \/ (impl = "simple" /\ CompactBackup)
    \/ (impl = "simple" /\ CompactInstall /\ UNCHANGED passes)

SpecConc == InitConc /\ [][NextConc]_vars

\* ------------- the compaction task and shutdown() of the store (SpecLoop)
\* the places of the compaction task: "idle" is the while test of
\* _compaction_loop, "sleeping" the await of asyncio.sleep, "waiting" the
\* "async with self.lock" of compact_log, "snapshot" the awaited cache calls
\* under the lock, "tmp_written" and "log_renamed" the file steps (no await),
\* "done" the end of the coroutine
AwaitPoints == {"idle", "sleeping", "waiting", "snapshot"}

\* a loop that neither tests shutdown_event nor breaks on CancelledError
loop_next_deaf(at, is_set) ==
    IF at = "test" THEN "sleeping"
    ELSE IF at = "slept" THEN "compact_log"
    ELSE "idle"

\* _compaction_loop, lines 154-162: where the loop goes from the while test
\* ("test"), after sleep returned ("slept"), after compact_log returned or
\* raised an Exception ("returned"), and when CancelledError is raised at one
\* of its awaits ("cancelled")
loop_next(at, is_set) ==
    IF at = "test" THEN (IF is_set THEN "done" ELSE "sleeping")
    ELSE IF at = "slept" THEN (IF is_set THEN "idle" ELSE "compact_log")
    ELSE IF at = "cancelled" THEN "done"
    ELSE "idle"

\* __init__ and initialize() of a store whose log file does not exist yet
InitLoop ==
    /\ NoLoop /\ NoOrder
    /\ capacity \in 1 .. MaxCap
    /\ cache = EmptyCache /\ node = EmptyList /\ touched = <<>>
    /\ lastOp = NoOp
    /\ acache = <<>>
    /\ now = 0
    /\ logFile = NoFile /\ tmpFile = NoFile /\ backupFile = FALSE
    /\ stats = InitStats(0)
    /\ phase = "up"
    /\ lock = NoTask
    /\ pc = IdlePc
    /\ req = NoReqs
    /\ impl = "simple"
    /\ evicted = 0
    /\ atStop = NoStop
    /\ ops = 0
    /\ history = "other"

\* start_compaction_task: the Task is created and will run _compaction_loop
StartCompactionTask ==
    /\ phase = "up" /\ compaction_task = "none"
    /\ compaction_task' = "running"
    /\ UNCHANGED <<lruVars, lastOp, acache, now, fileVars, stats, phase, lock, pc, req,
                   impl, shutdown_event, shutdown_pc, inFlight, passes, orderVars,
                   histVars>>

\* _compaction_loop, line 154: the while test
LoopTest ==
    /\ compaction_task = "running" /\ pc["compactor"] = "idle"
    /\ LET next == loop_next("test", shutdown_event)
       IN  /\ pc' = [pc EXCEPT !["compactor"] = next]
           /\ compaction_task' = IF next = "done" THEN "done" ELSE "running"
    /\ UNCHANGED <<lruVars, lastOp, acache, now, fileVars, stats, phase, lock, req, impl,
                   shutdown_event, shutdown_pc, inFlight, passes, orderVars, histVars>>

\* _compaction_loop, lines 156-158: sleep returns; unless the event is set
\* compact_log is called, which returns at once when there is no log file
\* (lines 166-167) and else goes on to "async with self.lock"
LoopWake ==
    /\ compaction_task = "running" /\ pc["compactor"] = "sleeping"
    /\ ops < MaxOps /\ ops' = ops + 1
    /\ IF loop_next("slept", shutdown_event) = "compact_log"
       THEN IF logFile.exists
            THEN /\ pc' = [pc EXCEPT !["compactor"] = "waiting"]
                 /\ passes' = [passes EXCEPT !.started = @ + 1]
            ELSE /\ pc' = [pc EXCEPT !["compactor"] =
                                loop_next("returned", shutdown_event)]
                 /\ passes' = [started |-> passes.started + 1,
                               finished |-> passes.finished + 1]
       ELSE /\ pc' = [pc EXCEPT !["compactor"] = loop_next("slept", shutdown_event)]
            /\ UNCHANGED passes
    /\ UNCHANGED <<lruVars, lastOp, acache, now, fileVars, stats, phase, lock, req, impl,
                   taskVars, orderVars, evicted, atStop, history>>

\* compact_log, line 171: the task gets the lock
PassAcquire ==
    /\ compaction_task = "running" /\ pc["compactor"] = "waiting"
    /\ CanAcquire(lock)
    /\ lock' = "compactor"
    /\ pc' = [pc EXCEPT !["compactor"] = "snapshot"]
    /\ UNCHANGED <<lruVars, lastOp, acache, now, fileVars, stats, phase, req, impl,
                   loopVars, orderVars, histVars>>

\* compact_log, lines 173-199: the snapshot of the cache and the temporary file
PassWriteTmp ==
    /\ compaction_task = "running" /\ pc["compactor"] = "snapshot"
    /\ tmpFile' = File(compact_lines(current_state(acache), now))
    /\ pc' = [pc EXCEPT !["compactor"] = "tmp_written"]
    /\ lastOp' = OpAt("compact_snapshot", NoneStr, NoneStr, NoneStr, now)
    /\ UNCHANGED <<lruVars, acache, now, logFile, backupFile, stats, phase, lock, req,
                   impl, loopVars, orderVars, histVars>>

\* compact_log, lines 202-206, run by the task
PassBackup == compaction_task = "running" /\ CompactBackup

\* compact_log, lines 209-224, run by the task: the pass is finished and the
\* loop is back at its while test
PassInstall ==
    /\ compaction_task = "running"
    /\ CompactInstall
    /\ passes' = [passes EXCEPT !.finished = @ + 1]

\* shutdown(), lines 43-46: the event is set and the Task is cancelled, with
\* no await in between; the caller then awaits the Task. The caller runs
\* while the compaction task is suspended at one of its awaits.
Shutdown ==
    /\ phase = "up" /\ shutdown_pc = "idle"
    /\ pc["compactor"] \in AwaitPoints
    /\ shutdown_event' = TRUE
    /\ inFlight' = (pc["compactor"] \in {"waiting", "snapshot"})
    /\ IF compaction_task = "none"
       THEN shutdown_pc' = "done" /\ UNCHANGED compaction_task
       ELSE shutdown_pc' = "awaiting" /\ compaction_task' = "cancelling"
    /\ UNCHANGED <<lruVars, lastOp, acache, now, fileVars, stats, phase, lock, pc, req,
                   impl, passes, orderVars, histVars>>

\* Task.cancel() takes effect: CancelledError is raised at the await where the
\* task is suspended; it leaves the with block of compact_log if the task is
\* in it, and reaches the handlers of _compaction_loop
Cancelled ==
    /\ compaction_task = "cancelling"
    /\ pc["compactor"] \in AwaitPoints
    /\ LET next == loop_next("cancelled", shutdown_event)
       IN  /\ pc' = [pc EXCEPT !["compactor"] = next]
           /\ compaction_task' = IF next = "done" THEN "done" ELSE "running"
    /\ lock' = IF pc["compactor"] = "snapshot" THEN with_exit(lock, TRUE) ELSE lock
    /\ UNCHANGED <<lruVars, lastOp, acache, now, fileVars, stats, phase, req, impl,
                   shutdown_event, shutdown_pc, inFlight, passes, orderVars, histVars>>

\* shutdown(), lines 46-49: the awaited Task has ended and shutdown returns
ShutdownReturn ==
    /\ shutdown_pc = "awaiting" /\ compaction_task = "done"
    /\ shutdown_pc' = "done"
    /\ UNCHANGED <<lruVars, lastOp, acache, now, fileVars, stats, phase, lock, pc, req,
                   impl, shutdown_event, compaction_task, inFlight, passes, orderVars,
                   histVars>>

NextLoop ==
    \/ StartCompactionTask
    \/ LoopTest
    \/ LoopWake
    \/ PassAcquire
    \/ PassWriteTmp
    \/ PassBackup
    \/ PassInstall
    \/ Shutdown
    \/ Cancelled
    \/ ShutdownReturn
    \/ \E t \in Clients, key \in SKeys : Call(t, "set", key, "1", NoneNum)
    \/ \E t \in Clients : Acquire(t)
    \/ \E t \in Clients : CacheStep(t)
    \/ \E t \in Clients : LogStep(t)
    \/ \E t \in Clients : Release(t)

SpecLoop == InitLoop /\ [][NextLoop]_vars

\* ---------------------------------------------------------- store claims
\* C11: once shutdown_event is set the loop calls compact_log no more; a loop
\* that is in its sleep then only leaves it to end, an ended loop stays ended,
\* and shutdown() returns only when the loop has ended.
C11_NoPassAfterShutdown ==
    [][/\ shutdown_event => passes'.started = passes.started
       /\ (shutdown_event /\ pc["compactor"] = "sleeping") =>
              pc'["compactor"] \in {"sleeping", "done"}
       /\ pc["compactor"] = "done" => pc'["compactor"] = "done"
       /\ (shutdown_pc = "awaiting" /\ shutdown_pc' = "done") =>
              (pc'["compactor"] = "done" /\ compaction_task' = "done")]_vars

\* shutdown() was called while the loop slept after a finished pass, and has
\* returned: the loop has ended and made no further pass
C11_Witness ==
    /\ shutdown_pc = "done" /\ pc["compactor"] = "done"
    /\ ~inFlight
    /\ passes.started = 1 /\ passes.finished = 1
    /\ stats.last_compaction # NoneNum

\* C12: when shutdown() was called while a compaction pass was under way
\* (waiting for the lock or holding it), the pass has run to its end by the
\* time shutdown() returns.
C12_ShutdownAwaitsPass ==
    (shutdown_pc = "done" /\ inFlight) => passes.finished = passes.started

\* the line of the last SET record for key in the log (0: none)
LastSet(key) ==
    LET hits == {i \in 1 .. Len(logFile.lines) :
                    /\ logFile.lines[i].json
                    /\ logFile.lines[i].entry.action = "SET"
                    /\ logFile.lines[i].entry.key = key}
    IN  IF hits = {} THEN 0 ELSE CHOOSE i \in hits : \A j \in hits : j <= i

\* the TTL of a record has run out at time t
Elapsed(entry, t) ==
    entry.ttl # NoneNum /\ entry.ttl * TicksPerSecond - (t - entry.timestamp) <= 0

\* C3: after set / delete requests on a fresh store, a restart from the log
\* gives every key the value it had before the process ended, apart from the
\* keys whose TTL ran out in between.
C3_WalRoundTrip ==
    history = "recovered" =>
        \A k \in SKeys :
            LET before == LiveView(atStop.cache, atStop.at)[k]
                ranOut == before # NoneStr /\ Expired(AEntry(atStop.cache, k), lastOp.at)
            IN  ~ranOut => LiveView(acache, lastOp.at)[k] = before

\* C5: after recovery a key whose last SET record carries a TTL that has run
\* out by then is absent, whatever earlier records the log holds for it.
C5_ExpiredSetSupersedes ==
    lastOp.name = "recover" =>
        \A k \in SKeys :
            (LastSet(k) # 0 /\ Elapsed(logFile.lines[LastSet(k)].entry, lastOp.at))
                => LiveView(acache, lastOp.at)[k] = NoneStr

\* C6: every key that is in the cache and not expired when compact_log takes
\* its snapshot has a SET record with its value in the log the pass installs.
C6_CompactionKeepsLiveKeys ==
    lastOp.name = "compact" =>
        \A i \in 1 .. Len(acache) :
            ~Expired(acache[i], lastOp.at) =>
                \E j \in 1 .. Len(logFile.lines) :
                    /\ logFile.lines[j].entry.action = "SET"
                    /\ logFile.lines[j].entry.key = acache[i].key
                    /\ logFile.lines[j].entry.value = acache[i].value

\* C7: at every step of a compaction pass a log file is at the log path.
C7_LogPresentDuringCompaction ==
    pc["compactor"] # "idle" => logFile.exists

\* C10: the evictions statistic equals the number of capacity evictions
\* performed since the store was constructed.
C10_EvictionsCounted ==
    phase = "up" => get_stats(stats, acache, now).evictions = evicted

\* the step is a completed get of the SimpleAsyncKeyValueStore
IsGet == ops' = ops + 1 /\ lastOp'.name = "get"

\* C16: a get leaves the log file as it is and adds one to exactly one counter,
\* cache_hits when it returned a value and cache_misses when it did not; no
\* other step of a running store (set, delete, the steps of a compaction pass,
\* the clock) changes either counter, so their sum counts the completed gets.
C16_GetCounters ==
    [][/\ IsGet =>
            /\ logFile' = logFile
            /\ IF lastOp'.ret # NoneStr
               THEN /\ stats'.cache_hits = stats.cache_hits + 1
                    /\ stats'.cache_misses = stats.cache_misses
               ELSE /\ stats'.cache_hits = stats.cache_hits
                    /\ stats'.cache_misses = stats.cache_misses + 1
       /\ (phase = "up" /\ phase' = "up" /\ ~IsGet) =>
            /\ stats'.cache_hits = stats.cache_hits
            /\ stats'.cache_misses = stats.cache_misses]_vars

\* after a set, one get has found the key and one get has not
C16_Witness ==
    /\ lastOp.name = "get"
    /\ stats.cache_hits = 1 /\ stats.cache_misses = 1
    /\ logFile.exists /\ stats.log_size = 1

\* C20: whenever a store is up and no compaction pass is under way, the
\* log_size statistic is the number of lines of the file at the log path (0
\* when there is none), also for a store that recovered from a log.
C20_LogSizeIsLineCount ==
    (phase = "up" /\ pc["compactor"] = "idle") =>
        get_stats(stats, acache, now).log_size = Len(logFile.lines)

\* C14: after a compaction pass has failed with an I/O error at any of its
\* steps, the log file is at the log path, the lock is free and the loop is
\* ready for its next pass.
C14_FailedPassKeepsLog ==
    lastOp.name = "compact_failed" =>
        /\ logFile.exists
        /\ lock = NoTask
        /\ pc["compactor"] = "idle"

\* what a store restarted at time t on the log file reads: key -> value
ReplayView(file, t) == LiveView(recover(capacity, file, t), t)

\* C17: when a compaction pass follows a completed one with no request in
\* between and no key's expiry falling between the two, replaying the log the
\* second pass writes (and then installs) gives the keys and values that
\* replaying the log installed by the first pass gives, and these are the live
\* content of the cache.
C17_CompactionTwice ==
    [][(/\ lastOp.name = "compact" /\ lastOp'.name = "compact_snapshot"
        /\ \A i \in 1 .. Len(acache) :
              ~(/\ acache[i].expires_at # NoneNum
                /\ lastOp.at < acache[i].expires_at
                /\ acache[i].expires_at <= now)) =>
        /\ ReplayView(tmpFile', now) = ReplayView(logFile, now)
        /\ ReplayView(tmpFile', now) = LiveView(acache, now)]_vars

\* a line of the KeyValueStore log that unpacks into three fields
WellFormed(line) == Len(split(strip(line))) = 3

\* C4: after any sequence of completed set, get and delete, replaying the log
\* in order into an empty cache of the same capacity yields exactly the keys
\* and values the live cache holds (stated for logs whose lines all parse).
C4_ReplayMatchesCache ==
    (phase = "up" /\ \A i \in 1 .. Len(logFile.lines) : WellFormed(logFile.lines[i])) =>
        LET r == kv_recover(capacity, logFile)
        IN  Content(r.cache, r.list) = Content(cache, node)

\* C9: recovery from a log that holds an invalid line among valid records does
\* not abort, and yields the cache recovered from the log without that line.
C9_RecoverySkipsInvalidLines ==
    (/\ lastOp.name = "recover"
     /\ \E i \in 1 .. Len(logFile.lines) : logFile.lines[i] = Junk
     /\ \A i \in 1 .. Len(logFile.lines) :
            logFile.lines[i] = Junk \/ WellFormed(logFile.lines[i])) =>
        LET r == kv_recover(capacity, File(SelectSeq(logFile.lines, WellFormed)))
        IN  /\ lastOp.ret # "ValueError"
            /\ phase = "up"
            /\ Content(cache, node) = Content(r.cache, r.list)

\* C15: a delete of a key that is in the cache returns true, removes that key
\* and no other, and appends exactly one DEL record for it; a delete of a key
\* that is not in the cache returns false and leaves cache and log as they were.
C15_DeleteEffect ==
    [][(ops' = ops + 1 /\ lastOp'.name = "delete") =>
        IF lastOp'.key \in CacheKeys(cache)
        THEN /\ lastOp'.ret = TRUE
             /\ CacheKeys(cache') = CacheKeys(cache) \ {lastOp'.key}
             /\ \A k \in CacheKeys(cache') : Content(cache', node')[k] = Content(cache, node)[k]
             /\ logFile'.exists
             /\ logFile'.lines = logFile.lines \o <<kv_format("DEL", lastOp'.key, NoneStr)>>
        ELSE /\ lastOp'.ret = FALSE
             /\ cache' = cache /\ node' = node
             /\ logFile' = logFile]_vars

\* a delete has removed a key that a set had stored, and the log ends with its
\* DEL record
C15_Witness ==
    /\ lastOp.name = "delete" /\ lastOp.ret = TRUE
    /\ lastOp.key \notin CacheKeys(cache)
    /\ Len(logFile.lines) >= 2
    /\ logFile.lines[Len(logFile.lines)] = kv_format("DEL", lastOp.key, NoneStr)
    /\ CacheKeys(cache) # {}

\* what a reader of the store's cache can get: key -> value, NoneStr if absent
StoreView == IF impl = "kv" THEN Content(cache, node) ELSE LiveView(acache, now)

Unlogged == {t \in Clients : pc[t] = "cached" /\ Appends(req[t])}

\* the mutations applied to the cache whose record has been written, in the
\* order the cache took them
Settled ==
    LET open == {CHOOSE i \in 1 .. Len(applied) :
                    applied[i].by = t /\ \A j \in (i + 1) .. Len(applied) : applied[j].by # t
                 : t \in Unlogged}
        F[i \in 0 .. Len(applied)] ==
            IF i = 0 THEN <<>>
            ELSE IF i \in open THEN F[i - 1] ELSE Append(F[i - 1], applied[i])
    IN  F[Len(applied)]

\* action and key of a line of the log file
RecordOf(line) ==
    IF impl = "kv"
    THEN LET fields == split(strip(line))
         IN  [action |-> Join(fields[1]), key |-> Join(fields[2])]
    ELSE [action |-> line.entry.action, key |-> line.entry.key]

\* C19: the records of the set / delete calls were appended in the order in
\* which the cache took their mutations, whatever the interleaving of the
\* callers; until a compaction rewrites it, the log file holds exactly these
\* records in that order.
C19_LogOrderIsCacheOrder ==
    /\ Settled = logged
    /\ ~backupFile =>
          /\ Len(logFile.lines) = Len(logged)
          /\ \A i \in 1 .. Len(logged) :
                RecordOf(logFile.lines[i]) = [action |-> logged[i].action,
                                              key |-> logged[i].key]

\* two callers have written a set and a delete of one key while a third
\* mutation, applied by the first caller once more, waits for its record
C19_Witness ==
    /\ Len(logged) = 2 /\ logged[1].by # logged[2].by
    /\ logged[1].key = logged[2].key /\ logged[1].action # logged[2].action
    /\ Len(applied) = 3 /\ Unlogged # {}
    /\ \E t \in Clients \ Unlogged : pc[t] = "waiting"

\* a task is inside its cache-and-log critical section
InCritical(t) ==
    IF t = "compactor" THEN pc[t] \in {"tmp_written", "log_renamed"}
    ELSE pc[t] \in {"locked", "cached", "logged"}

\* C8: at most one of get, set, delete and a compaction pass is inside its
\* critical section at any time, and the lock names the task that is.
C8_MutualExclusion ==
    /\ \A t \in Tasks : \A u \in Tasks \ {t} : ~(InCritical(t) /\ InCritical(u))
    /\ \A t \in Tasks : InCritical(t) => lock = t

\* a compaction pass is under way while a request waits for the lock
C8_Witness ==
    /\ pc["compactor"] = "log_renamed"
    /\ \E t \in Clients : pc[t] = "waiting" /\ req[t].op = "set"

\* ------------------------------------------------------------ LRU claims
\* the key of the cache that was touched longest ago
LeastRecent == touched[CHOOSE i \in 1 .. Len(touched) :
                    /\ touched[i] \in CacheKeys(cache)
                    /\ \A j \in 1 .. (i - 1) : touched[j] \notin CacheKeys(cache)]

\* C1: after every completed put, get or delete the index holds at most
\* capacity keys.
C1_CapacityInvariant == CacheLen(cache) <= capacity

\* a put has just evicted: the cache is full and a key touched earlier is gone
C1_Witness ==
    /\ lastOp.name = "put"
    /\ CacheLen(cache) = capacity
    /\ \E i \in 1 .. Len(touched) : touched[i] \notin CacheKeys(cache)

\* C2: a put of a new key into a full cache removes exactly the least recently
\* touched key; every other put removes nothing and only adds its own key.
C2_EvictsLeastRecent ==
    [][lastOp'.name = "put" =>
        IF lastOp'.key \notin CacheKeys(cache) /\ CacheLen(cache) = capacity
        THEN CacheKeys(cache') = (CacheKeys(cache) \ {LeastRecent}) \cup {lastOp'.key}
        ELSE CacheKeys(cache') = CacheKeys(cache) \cup {lastOp'.key}]_vars

\* capacity 2: put a, put b, get a, put c has removed b and kept a
C2_Witness ==
    /\ capacity = 2
    /\ touched = <<"b", "a", "c">>
    /\ lastOp.name = "put" /\ lastOp.key = "c"
    /\ CacheKeys(cache) = {"a", "c"}

\* the Nodes met by following .next from Node n, up to the tail sentinel (at most
\* fuel of them: a walk that does not arrive is cut off)
RECURSIVE Walk(_, _, _)
Walk(h, n, fuel) ==
    IF n \notin NodePool \/ fuel = 0 THEN <<>>
    ELSE <<n>> \o Walk(h, h[n].next, fuel - 1)

\* the data Nodes of the list, from the head sentinel on
ListNodes == Walk(node, node[head].next, Cardinality(NodePool) + 1)

\* C18: the Nodes reached by walking the list from the head sentinel to the
\* tail sentinel are exactly the Nodes of the index, each once: same size, the
\* entry for key k is a Node carrying k, and prev / next agree with each other.
C18_IndexMatchesList ==
    LET l == ListNodes
        last == IF l = <<>> THEN head ELSE l[Len(l)]
    IN  /\ node[last].next = tail
        /\ Len(l) = CacheLen(cache)
        /\ \A i \in 1 .. Len(l) : \A j \in 1 .. Len(l) : l[i] = l[j] => i = j
        /\ {l[i] : i \in 1 .. Len(l)} = {cache[k] : k \in CacheKeys(cache)}
        /\ \A k \in CacheKeys(cache) : node[cache[k]].key = k
        /\ node[head].prev = NoNode /\ node[tail].next = NoNode
        /\ \A i \in 1 .. Len(l) :
              /\ node[l[i]].prev = (IF i = 1 THEN head ELSE l[i - 1])
              /\ node[l[i]].next = (IF i = Len(l) THEN tail ELSE l[i + 1])
        /\ node[tail].prev = last

\* a get has moved the Node at the tail of a list of two to the front
C18_Witness ==
    /\ lastOp.name = "get" /\ lastOp.ret # NoneStr
    /\ Len(ListNodes) = 2
    /\ ListNodes[1] = cache[lastOp.key]
    /\ touched[Len(touched)] = lastOp.key
    /\ Len(touched) > 1 /\ touched[Len(touched) - 1] \in CacheKeys(cache)

====
